---- MODULE Spec2Model ----
(***************************************************************************)
(* Model of the azurerm_monitor_scheduled_query_rules_log resource:        *)
(* the Create/Update, Read and Delete handlers of                          *)
(* resource_arm_monitor_scheduled_query_rules_log.go, the expand/flatten   *)
(* functions they use, and the provider API they call.  One resource       *)
(* instance is managed; other actors may change the remote object between  *)
(* any two client calls of a handler.                                      *)
(***************************************************************************)
EXTENDS Integers, Sequences, FiniteSets, TLC

VARIABLES
    cfg,              \* the declared configuration (RuleConfig), fixed per behaviour
    importProtection, \* features.ShouldResourcesBeImported()
    remote,           \* the provider-side object, or NoRule
    d,                \* schema.ResourceData: [id, fields]
    pc,               \* position of the running handler, "idle" between handlers
    op,               \* the handler invoked last: create, update, read, delete
    call,             \* the last client call of the handler and its response
    issued,           \* client calls issued by the handler invocation so far
    result,           \* what the handler returned (kind "none" while it runs)
    written,          \* the d.Set calls made by the last Read: field -> value
    sinceDelete,      \* "deleted" once Delete returned success, "read" once a Read
                      \* followed it, "none" before and once the rule is created again
    extChanges        \* number of changes made by other actors so far

vars == <<cfg, importProtection, remote, d, pc, op, call, issued, result,
          written, sinceDelete, extChanges>>

----------------------------------------------------------------------------
(* Bounds *)

\* Other actors change the remote object at most this many times.
MaxExternal == 2

----------------------------------------------------------------------------
(* Optional (pointer) values: None is a nil pointer / an absent field. *)

None == <<>>
Some(v) == <<v>>
IsSome(o) == o # <<>>
Val(o) == o[1]

RECURSIVE SetToSeq(_)
\* schema.Set.List(): the elements of a set in some fixed order.
SetToSeq(S) ==
    IF S = {} THEN <<>>
    ELSE LET x == CHOOSE y \in S : TRUE IN <<x>> \o SetToSeq(S \ {x})

\* Writing a list into a TypeSet field keeps its elements, not their order.
SeqToSet(s) == {s[i] : i \in DOMAIN s}

----------------------------------------------------------------------------
(* Schema *)

ConfigFields ==
    {"name", "resource_group_name", "location", "authorized_resources",
     "azns_action", "criteria", "data_source_id", "description", "enabled",
     "frequency", "query", "query_type", "severity", "throttling",
     "time_window", "trigger", "tags"}

ComputedFields == {"last_updated_time", "provisioning_state"}

FieldNames == ConfigFields \cup ComputedFields

\* The zero value d.Get returns for a field that is not set.
ZeroValue(f) ==
    CASE f \in {"enabled"} -> FALSE
      [] f \in {"frequency", "severity", "throttling", "time_window"} -> 0
      [] f \in {"authorized_resources", "azns_action", "criteria", "trigger",
                "tags"} -> {}
      [] OTHER -> ""

\* d.Get(f)
DGet(fields, f) == IF IsSome(fields[f]) THEN Val(fields[f]) ELSE ZeroValue(f)

----------------------------------------------------------------------------
(* Configurations the host framework may hand to the handlers *)

Names == {"r1", "r2"}
Groups == {"rg1", "rg2"}

DimInstance == [name |-> "InstanceName", operator |-> "Include", values |-> <<"">>]
DimHost == [name |-> "Host", operator |-> "Include", values |-> <<"a", "b">>]

CritIdle == [metric_name |-> "Average_% Idle Time", dimension |-> {DimInstance}]
CritCpu == [metric_name |-> "Cpu", dimension |-> {DimInstance, DimHost}]

MetricTrigger ==
    [metric_column |-> "TimeGenerated", metric_trigger_type |-> "Total",
     operator |-> "GreaterThan", threshold |-> 1]

FullConfig(n, g) ==
    [name |-> n, resource_group_name |-> g, location |-> "West US",
     authorized_resources |-> {"ws1", "ws2"},
     azns_action |-> {[action_group |-> {"ag1"}, custom_webhook_payload |-> "{}",
                       email_subject |-> "Custom alert email subject"]},
     criteria |-> {CritIdle, CritCpu},
     data_source_id |-> "ws1", description |-> "test log to metric action",
     enabled |-> TRUE, frequency |-> 60, query |-> "let d=datatable",
     query_type |-> "ResultCount", severity |-> 3, throttling |-> 5,
     time_window |-> 60,
     trigger |-> {[operator |-> "GreaterThan", threshold |-> 5000,
                   metric_trigger |-> {MetricTrigger}]},
     tags |-> {<<"env", "test">>}]

\* Only the required fields are declared; the rest hold their defaults.
MinimalConfig(n, g) ==
    [name |-> n, resource_group_name |-> g, location |-> "westus",
     authorized_resources |-> {}, azns_action |-> {}, criteria |-> {},
     data_source_id |-> "ai1", description |-> "", enabled |-> TRUE,
     frequency |-> 0, query |-> "", query_type |-> "ResultCount",
     severity |-> 0, throttling |-> 0, time_window |-> 0, trigger |-> {},
     tags |-> {}]

\* The log-to-metric rule of the acceptance test, disabled.
LogToMetricConfig(n, g) ==
    [name |-> n, resource_group_name |-> g, location |-> "westus",
     authorized_resources |-> {}, azns_action |-> {}, criteria |-> {CritIdle},
     data_source_id |-> "ai1", description |-> "test log to metric action",
     enabled |-> FALSE, frequency |-> 0, query |-> "",
     query_type |-> "ResultCount", severity |-> 0, throttling |-> 0,
     time_window |-> 0, trigger |-> {}, tags |-> {<<"env", "test">>}]

\* Every identity occurs with the full configuration; the sparser ones occur
\* with one identity each.
Configs ==
    {FullConfig(n, g) : <<n, g>> \in Names \X Groups}
    \cup {MinimalConfig("r1", "rg1"), LogToMetricConfig("r2", "rg2")}

----------------------------------------------------------------------------
(* Resource identifiers: a path, kept as its sequence of segments.  The     *)
(* empty sequence is the empty string.                                      *)

Subscription == "sub1"

\* The identifier the provider assigns to the rule n of resource group g.
RemoteId(g, n) ==
    <<"subscriptions", Subscription, "resourceGroups", g,
      "providers", "microsoft.insights", "scheduledqueryrules", n>>

\* The keys of the key/value pairs of an identifier, and the value of a key
\* (the last pair wins, "" for a key that does not occur).
Pairs(id) == {i \in 1..Len(id) : i % 2 = 1}
PathValue(id, key) ==
    LET at == {i \in Pairs(id) : id[i] = key}
    IN  IF at = {} THEN ""
        ELSE id[(CHOOSE i \in at : \A j \in at : j <= i) + 1]

\* azure.ParseAzureResourceID: key/value pairs, a subscription is required.
ParseOk(id) ==
    /\ Len(id) > 0
    /\ Len(id) % 2 = 0
    /\ \A i \in 1..Len(id) : id[i] # ""
    /\ PathValue(id, "subscriptions") # ""

\* id.ResourceGroup
IdResourceGroup(id) == PathValue(id, "resourceGroups")

\* id.Path["scheduledqueryrules"]
IdRuleName(id) == PathValue(id, "scheduledqueryrules")

----------------------------------------------------------------------------
(* Expander: configuration -> request payload *)

\* azure.NormalizeLocation: lower case, blanks removed.
NormalizeLocation(l) ==
    CASE l = "West US" -> "westus"
      [] l = "East US" -> "eastus"
      [] OTHER -> l

\* utils.ExpandStringSlice over a list
ExpandStringSlice(s) == Some(s)

ExpandDimension(dVal) ==
    [Name |-> Some(dVal.name), Operator |-> Some(dVal.operator),
     Values |-> ExpandStringSlice(dVal.values)]

RECURSIVE ExpandDimensions(_)
ExpandDimensions(list) ==
    IF list = <<>> THEN <<>>
    ELSE <<ExpandDimension(Head(list))>> \o ExpandDimensions(Tail(list))

RECURSIVE expandMonitorScheduledQueryRulesLogCriteria(_)
expandMonitorScheduledQueryRulesLogCriteria(input) ==
    IF input = <<>> THEN <<>>
    ELSE LET v == Head(input)
             dimensions == ExpandDimensions(SetToSeq(v.dimension))
         IN  <<[MetricName |-> Some(v.metric_name),
                Dimensions |-> Some(dimensions)]>>
             \o expandMonitorScheduledQueryRulesLogCriteria(Tail(input))

expandMonitorScheduledQueryRulesLogToMetricAction(fields) ==
    LET criteriaRaw == SetToSeq(DGet(fields, "criteria"))
    IN  [OdataType |-> "LogToMetricAction",
         Criteria |-> Some(expandMonitorScheduledQueryRulesLogCriteria(criteriaRaw))]

expandMonitorScheduledQueryRulesSource(fields) ==
    [AuthorizedResources |->
         ExpandStringSlice(SetToSeq(DGet(fields, "authorized_resources"))),
     DataSourceID |-> Some(DGet(fields, "data_source_id")),
     Query |-> IF DGet(fields, "query") # "" THEN Some(DGet(fields, "query"))
               ELSE None,
     QueryType |-> "ResultCount"]

expandMonitorScheduledQueryRulesSchedule(fields) ==
    [FrequencyInMinutes |-> Some(DGet(fields, "frequency")),
     TimeWindowInMinutes |-> Some(DGet(fields, "time_window"))]

\* tags.Expand
TagsExpand(t) == Some(t)

\* The parameters resourceArmMonitorScheduledQueryRulesLogCreateUpdate builds.
ExpandParameters(fields) ==
    [Location |-> Some(NormalizeLocation(DGet(fields, "location"))),
     LogSearchRule |-> Some(
        [Description |-> Some(DGet(fields, "description")),
         Enabled |-> IF DGet(fields, "enabled") THEN "true" ELSE "false",
         Source |-> Some(expandMonitorScheduledQueryRulesSource(fields)),
         Schedule |-> Some(expandMonitorScheduledQueryRulesSchedule(fields)),
         Action |-> Some(expandMonitorScheduledQueryRulesLogToMetricAction(fields)),
         LastUpdatedTime |-> None,
         ProvisioningState |-> ""]),
     Tags |-> TagsExpand(DGet(fields, "tags")),
     ID |-> None]

\* The values the host framework plans for a configuration: d.Get reads these.
PlannedFields(c, old) ==
    [f \in FieldNames |-> IF f \in ConfigFields THEN Some(c[f]) ELSE old[f]]

NoFields == [f \in FieldNames |-> None]

----------------------------------------------------------------------------
(* The provider API: one rule per (resource group, name) *)

NoRule == [key |-> <<>>]

\* The time the provider stamps an update with.
ServerTime == <<2020, 1, 1>>

\* time.Time.Format(time.RFC3339)
FormatRFC3339(t) ==
    IF t = <<2020, 1, 1>> THEN "2020-01-01T00:00:00Z" ELSE "0001-01-01T00:00:00Z"

\* What the provider stores for CreateOrUpdate(g, n, parameters): it assigns
\* the identifier, the update time and the provisioning state.
Stored(g, n, parameters) ==
    [key |-> <<g, n>>,
     obj |-> [parameters EXCEPT
                !.ID = Some(RemoteId(g, n)),
                !.LogSearchRule =
                    Some([Val(@) EXCEPT !.LastUpdatedTime = Some(ServerTime),
                                        !.ProvisioningState = "Succeeded"])]]

\* Response statuses: the call succeeded, the provider answered 404, it
\* answered another failure, or the request got no response at all.
Failures == {"ServerError", "NoResponse"}

EmptyObject ==
    [Location |-> None, LogSearchRule |-> None, Tags |-> None, ID |-> None]

\* The statuses a client.Get or client.Delete of the rule n of resource group
\* g may end with.
GetStatuses(g, n) ==
    (IF remote # NoRule /\ remote.key = <<g, n>> THEN {"OK"} ELSE {"NotFound"})
    \cup Failures
\* The object a Get with status st returns.  Where the handler reads the
\* identifier of the response, the response may also come without one or with
\* an empty one.
GetBodies(st, readsID) ==
    IF st # "OK" THEN {EmptyObject}
    ELSE IF readsID
         THEN {remote.obj, [remote.obj EXCEPT !.ID = None],
               [remote.obj EXCEPT !.ID = Some(<<>>)]}
         ELSE {remote.obj}

\* utils.ResponseWasNotFound / response.WasNotFound
ResponseWasNotFound(st) == st = "NotFound"

NoCall == [site |-> "none", status |-> "none", body |-> EmptyObject]
Called(site, st, body) == [site |-> site, status |-> st, body |-> body]

----------------------------------------------------------------------------
(* Objects other actors may put in place of the rule *)

BareAction == [OdataType |-> "LogToMetricAction", Criteria |-> None]

BareRule ==
    [Description |-> None, Enabled |-> "", Source |-> None, Schedule |-> None,
     Action |-> Some(BareAction), LastUpdatedTime |-> None,
     ProvisioningState |-> ""]

WithRule(g, n, rule) ==
    [Location |-> None, LogSearchRule |-> Some(rule), Tags |-> None,
     ID |-> Some(RemoteId(g, n))]

\* A rule as another client of the provider would have created it.
DriftedObject(g, n) ==
    LET o == Stored(g, n, ExpandParameters(
                 PlannedFields(FullConfig(n, g), NoFields))).obj
    IN  [o EXCEPT !.LogSearchRule =
            Some([Val(@) EXCEPT !.Description = Some("changed elsewhere"),
                                !.Enabled = "false"])]

ExternalObjects(g, n) ==
    { DriftedObject(g, n),
      \* every optional field absent
      WithRule(g, n, BareRule),
      \* source and schedule present, their fields absent; dimensions absent
      WithRule(g, n, [BareRule EXCEPT
          !.Source = Some([AuthorizedResources |-> None, DataSourceID |-> None,
                           Query |-> None, QueryType |-> ""]),
          !.Schedule = Some([FrequencyInMinutes |-> None,
                             TimeWindowInMinutes |-> None]),
          !.Action = Some([BareAction EXCEPT !.Criteria =
              Some(<<[MetricName |-> Some("m"), Dimensions |-> None],
                     [MetricName |-> Some("m2"), Dimensions |->
                        Some(<<[Name |-> None, Operator |-> None,
                                Values |-> None]>>)]>>)])]),
      \* a criterion without a metric name
      WithRule(g, n, [BareRule EXCEPT
          !.Action = Some([BareAction EXCEPT !.Criteria =
              Some(<<[MetricName |-> None, Dimensions |-> None]>>)])]),
      \* an alerting rule, and a rule with no action
      [WithRule(g, n, [BareRule EXCEPT
          !.Description = Some("test alerting action"), !.Enabled = "true",
          !.Action = Some([OdataType |-> "AlertingAction"])])
       EXCEPT !.Location = Some("West US")],
      WithRule(g, n, [BareRule EXCEPT !.Action = None]),
      \* no properties at all
      [EmptyObject EXCEPT !.ID = Some(RemoteId(g, n))] }

----------------------------------------------------------------------------
(* Flattener: response payload -> the fields Read sets *)

\* Dereferencing a pointer; a nil pointer faults.
NilDeref == "nil pointer dereference"
Deref(o) == IF IsSome(o) THEN Val(o) ELSE NilDeref

NoWrites == <<>>
Write(f, v) == f :> v
WriteIf(cond, f, v) == IF cond THEN f :> v ELSE NoWrites

flattenDimension(dimension) ==
    WriteIf(IsSome(dimension.Name), "name", Deref(dimension.Name))
    @@ WriteIf(IsSome(dimension.Operator), "operator", Deref(dimension.Operator))
    @@ WriteIf(IsSome(dimension.Values), "values", Deref(dimension.Values))

RECURSIVE FlattenDimensionList(_)
FlattenDimensionList(list) ==
    IF list = <<>> THEN <<>>
    ELSE <<flattenDimension(Head(list))>> \o FlattenDimensionList(Tail(list))

flattenAzureRmScheduledQueryRulesLogDimension(input) ==
    IF IsSome(input) THEN FlattenDimensionList(Val(input)) ELSE <<>>

flattenCriterion(criteria) ==
    [dimension |-> flattenAzureRmScheduledQueryRulesLogDimension(criteria.Dimensions),
     metric_name |-> Deref(criteria.MetricName)]

RECURSIVE FlattenCriteriaList(_)
FlattenCriteriaList(list) ==
    IF list = <<>> THEN <<>>
    ELSE <<flattenCriterion(Head(list))>> \o FlattenCriteriaList(Tail(list))

flattenAzureRmScheduledQueryRulesLogCriteria(input) ==
    IF IsSome(input) THEN FlattenCriteriaList(Val(input)) ELSE <<>>

\* The flattened criteria took a nil pointer fault.
CriteriaFault(list) == \E i \in DOMAIN list : list[i].metric_name = NilDeref

\* d.Set of a list into the TypeSet "dimension" / "criteria": an element's
\* missing key reads as its zero value, the order is dropped.
SetDimension(m) ==
    [name |-> IF "name" \in DOMAIN m THEN m["name"] ELSE "",
     operator |-> IF "operator" \in DOMAIN m THEN m["operator"] ELSE "",
     values |-> IF "values" \in DOMAIN m THEN m["values"] ELSE <<>>]
SetCriteria(list) ==
    {[metric_name |-> list[i].metric_name,
      dimension |-> {SetDimension(list[i].dimension[j]) :
                     j \in DOMAIN list[i].dimension}] : i \in DOMAIN list}

\* utils.FlattenStringSlice, written into a TypeSet
FlattenStringSlice(o) == IF IsSome(o) THEN SeqToSet(Val(o)) ELSE {}

\* tags.Flatten
TagsFlatten(o) == IF IsSome(o) THEN Val(o) ELSE {}

----------------------------------------------------------------------------
(* Handler results *)

Running == [kind |-> "none", ctx |-> None]
Success == [kind |-> "ok", ctx |-> None]
\* An error returned as it came from the client, or without identity context.
RawError(kind) == [kind |-> kind, ctx |-> None]
\* fmt.Errorf("... %q (resource group %q): ...", name, resourceGroup, err)
WrappedError(kind, name, resourceGroup) ==
    [kind |-> kind, ctx |-> Some(<<name, resourceGroup>>)]
\* A nil pointer dereference: the provider process panics.
Panic == [kind |-> "panic", ctx |-> None]

----------------------------------------------------------------------------
(* Read: what it sets for a response, and what it returns *)

\* ReadIdentity with the two values swapped.
ReadIdentitySwapped(id) ==
    Write("name", Some(IdResourceGroup(id)))
    @@ Write("resource_group_name", Some(IdRuleName(id)))

\* d.Set("name", name); d.Set("resource_group_name", resourceGroup)
ReadIdentity(id) ==
    Write("name", Some(IdRuleName(id)))
    @@ Write("resource_group_name", Some(IdResourceGroup(id)))

ReadLocation(resp) ==
    WriteIf(IsSome(resp.Location), "location",
            Some(NormalizeLocation(Deref(resp.Location))))

ReadLastUpdated(rule) ==
    WriteIf(IsSome(rule.LastUpdatedTime), "last_updated_time",
            Some(FormatRFC3339(Deref(rule.LastUpdatedTime))))

ReadProvisioningState(rule) ==
    Write("provisioning_state", Some(rule.ProvisioningState))

ReadEnabled(rule) ==
    IF rule.Enabled = "true" THEN Write("enabled", Some(TRUE))
    ELSE Write("enabled", Some(FALSE))

\* d.Set("description", resp.Description): a nil pointer unsets the field.
ReadDescription(rule) == Write("description", rule.Description)

ReadSchedule(rule) ==
    IF IsSome(rule.Schedule)
    THEN LET schedule == Val(rule.Schedule)
         IN  WriteIf(IsSome(schedule.FrequencyInMinutes), "frequency",
                     schedule.FrequencyInMinutes)
             @@ WriteIf(IsSome(schedule.TimeWindowInMinutes), "time_window",
                        schedule.TimeWindowInMinutes)
    ELSE NoWrites

ReadSource(rule) ==
    IF IsSome(rule.Source)
    THEN LET source == Val(rule.Source)
         IN  WriteIf(IsSome(source.AuthorizedResources), "authorized_resources",
                     Some(FlattenStringSlice(source.AuthorizedResources)))
             @@ WriteIf(IsSome(source.DataSourceID), "data_source_id",
                        source.DataSourceID)
             @@ WriteIf(IsSome(source.Query), "query", source.Query)
             @@ Write("query_type", Some(source.QueryType))
    ELSE NoWrites

\* tags.FlattenAndSet(d, resp.Tags)
ReadTags(resp) == Write("tags", Some(TagsFlatten(resp.Tags)))

IsLogToMetric(rule) ==
    IsSome(rule.Action) /\ Val(rule.Action).OdataType = "LogToMetricAction"

\* ReadHydrate with the action looked at before any property is set.
ReadHydrateChecksActionFirst(id, resp) ==
    LET name == IdRuleName(id)
        resourceGroup == IdResourceGroup(id)
        head == ReadIdentity(id) @@ ReadLocation(resp)
    IN  IF ~IsSome(resp.LogSearchRule)
        THEN [ret |-> Panic, writes |-> head]
        ELSE
        LET rule == Val(resp.LogSearchRule)
            props == head @@ ReadLastUpdated(rule) @@ ReadProvisioningState(rule)
                     @@ ReadEnabled(rule) @@ ReadDescription(rule)
        IN  IF ~IsLogToMetric(rule)
            THEN [ret |-> WrappedError("unknown_action", name, resourceGroup),
                  writes |-> head]
            ELSE
            LET criteria == flattenAzureRmScheduledQueryRulesLogCriteria(
                                Val(rule.Action).Criteria)
            IN  IF CriteriaFault(criteria)
                THEN [ret |-> Panic, writes |-> props]
                ELSE [ret |-> Success,
                      writes |-> props
                                 @@ Write("criteria", Some(SetCriteria(criteria)))
                                 @@ ReadSchedule(rule) @@ ReadSource(rule)
                                 @@ ReadTags(resp)]

\* Lines 328-377: the fields set, in order, and the value returned, for the
\* object resp that Get returned for the identifier id.
ReadHydrate(id, resp) ==
    LET name == IdRuleName(id)
        resourceGroup == IdResourceGroup(id)
        head == ReadIdentity(id) @@ ReadLocation(resp)
    IN  IF ~IsSome(resp.LogSearchRule)
        THEN [ret |-> Panic, writes |-> head]
        ELSE
        LET rule == Val(resp.LogSearchRule)
            props == head @@ ReadLastUpdated(rule) @@ ReadProvisioningState(rule)
                     @@ ReadEnabled(rule) @@ ReadDescription(rule)
        IN  IF ~IsLogToMetric(rule)
            THEN [ret |-> WrappedError("unknown_action", name, resourceGroup),
                  writes |-> props]
            ELSE
            LET criteria == flattenAzureRmScheduledQueryRulesLogCriteria(
                                Val(rule.Action).Criteria)
            IN  IF CriteriaFault(criteria)
                THEN [ret |-> Panic, writes |-> props]
                ELSE [ret |-> Success,
                      writes |-> props
                                 @@ Write("criteria", Some(SetCriteria(criteria)))
                                 @@ ReadSchedule(rule) @@ ReadSource(rule)
                                 @@ ReadTags(resp)]

\* ReadOutcome without the not-found branch: every failed Get is an error.
ReadOutcomeNotFoundIsError(id, st, resp) ==
    IF st # "OK"
    THEN [ret |-> WrappedError("read_get", IdRuleName(id), IdResourceGroup(id)),
          writes |-> NoWrites, clear |-> FALSE]
    ELSE LET h == ReadHydrate(id, resp)
         IN  [ret |-> h.ret, writes |-> h.writes, clear |-> FALSE]

\* Lines 318-326: the outcome of Read once Get has answered with status st.
\* clear tells that d.SetId("") was called.
ReadOutcome(id, st, resp) ==
    IF st # "OK"
    THEN IF ResponseWasNotFound(st)
         THEN [ret |-> Success, writes |-> NoWrites, clear |-> TRUE]
         ELSE [ret |-> WrappedError("read_get", IdRuleName(id), IdResourceGroup(id)),
               writes |-> NoWrites, clear |-> FALSE]
    ELSE LET h == ReadHydrate(id, resp)
         IN  [ret |-> h.ret, writes |-> h.writes, clear |-> FALSE]

\* The fields of d after the d.Set calls in writes.
ApplyWrites(fields, writes) ==
    [f \in FieldNames |-> IF f \in DOMAIN writes THEN writes[f] ELSE fields[f]]

----------------------------------------------------------------------------
(* State machine *)

Init ==
    /\ cfg \in Configs
    /\ importProtection \in BOOLEAN
    /\ remote = NoRule
    /\ d = [id |-> <<>>, fields |-> PlannedFields(cfg, NoFields)]
    /\ pc = "idle"
    /\ op = "none"
    /\ call = NoCall
    /\ issued = {}
    /\ result = Running
    /\ written = NoWrites
    /\ sinceDelete = "none"
    /\ extChanges = 0

\* The handler returns ret.
Return(ret) == /\ result' = ret
               /\ pc' = "idle"

\* ExistenceCheck that does not look at the identifier of what Get returned.
ExistenceCheckIgnoresExisting(name, resourceGroup, st, existing) ==
    IF st # "OK" /\ ~ResponseWasNotFound(st)
    THEN WrappedError("check", name, resourceGroup)
    ELSE Running

\* The existence check of Create: the error it ends the handler with, or
\* Running when the handler goes on to CreateOrUpdate.
ExistenceCheck(name, resourceGroup, st, existing) ==
    IF st # "OK" /\ ~ResponseWasNotFound(st)
    THEN WrappedError("check", name, resourceGroup)
    ELSE IF IsSome(existing.ID) /\ Val(existing.ID) # <<>>
         THEN RawError("exists")
         ELSE Running

\* Create/Update, lines 239-258: the host invokes the handler with the
\* planned values; a new resource under import protection is looked up first.
CreateUpdateStart ==
    /\ pc = "idle"
    /\ LET o == IF d.id = <<>> THEN "create" ELSE "update"
           fields == PlannedFields(cfg, d.fields)
           name == DGet(fields, "name")
           resourceGroup == DGet(fields, "resource_group_name")
       IN  /\ op' = o
           /\ d' = [d EXCEPT !.fields = fields]
           /\ written' = NoWrites
           /\ IF importProtection /\ o = "create"
              THEN \E st \in GetStatuses(resourceGroup, name) :
                   \E existing \in GetBodies(st, TRUE) :
                     LET ret == ExistenceCheck(name, resourceGroup, st, existing)
                     IN  /\ call' = Called("check", st, existing)
                         /\ issued' = {"check"}
                         /\ IF ret = Running
                            THEN result' = Running /\ pc' = "cu_put"
                            ELSE Return(ret)
              ELSE /\ call' = NoCall
                   /\ issued' = {}
                   /\ result' = Running
                   /\ pc' = "cu_put"
    /\ UNCHANGED <<cfg, importProtection, remote, sinceDelete, extChanges>>

\* CreateOrUpdateResult that goes on whatever the call returned.
CreateOrUpdateResultIgnoresError(name, resourceGroup, st) == Running

\* The outcome of client.CreateOrUpdate for the handler, lines 290-292.
CreateOrUpdateResult(name, resourceGroup, st) ==
    IF st # "OK" THEN WrappedError("create", name, resourceGroup) ELSE Running

\* Lines 260-292: expand the configuration and call CreateOrUpdate.
CreateOrUpdate ==
    /\ pc = "cu_put"
    /\ LET name == DGet(d.fields, "name")
           resourceGroup == DGet(d.fields, "resource_group_name")
           parameters == ExpandParameters(d.fields)
       IN  \E st \in {"OK", "NotFound"} \cup Failures :
             LET ret == CreateOrUpdateResult(name, resourceGroup, st)
             IN  /\ call' = Called("put", st, EmptyObject)
                 /\ issued' = issued \cup {"put"}
                 /\ IF st = "OK"
                    THEN /\ remote' = Stored(resourceGroup, name, parameters)
                         /\ sinceDelete' = "none"
                    ELSE UNCHANGED <<remote, sinceDelete>>
                 /\ IF ret = Running
                    THEN result' = Running /\ pc' = "cu_get"
                    ELSE Return(ret)
    /\ UNCHANGED <<cfg, importProtection, d, op, written, extChanges>>

\* Lines 294-300: what the Get after CreateOrUpdate ends the handler with,
\* or Running when the identifier is set and Read follows.
GetAfterResult(name, resourceGroup, st, read) ==
    IF st # "OK" THEN RawError("get_after")
    ELSE IF ~IsSome(read.ID) THEN WrappedError("noid", name, resourceGroup)
    ELSE Running

\* Lines 294-301: Get the object back and d.SetId(*read.ID).
GetAfterCreate ==
    /\ pc = "cu_get"
    /\ LET name == DGet(d.fields, "name")
           resourceGroup == DGet(d.fields, "resource_group_name")
       IN  \E st \in GetStatuses(resourceGroup, name) :
           \E read \in GetBodies(st, TRUE) :
             LET ret == GetAfterResult(name, resourceGroup, st, read)
             IN  /\ call' = Called("get_after", st, read)
                 /\ issued' = issued \cup {"get_after"}
                 /\ IF ret = Running
                    THEN /\ d' = [d EXCEPT !.id = Val(read.ID)]
                         /\ result' = Running
                         /\ pc' = "cu_read"
                    ELSE /\ Return(ret)
                         /\ d' = d
    /\ UNCHANGED <<cfg, importProtection, remote, op, written, sinceDelete,
                   extChanges>>

\* Read, lines 306-378: invoked by the host on a resource that has an
\* identifier, or by Create/Update as its last step.
Read ==
    /\ pc \in {"idle", "cu_read"}
    /\ pc = "idle" => d.id # <<>>
    /\ op' = IF pc = "idle" THEN "read" ELSE op
    /\ IF ~ParseOk(d.id)
       THEN /\ Return(RawError("parse"))
            /\ call' = NoCall
            /\ issued' = IF pc = "idle" THEN {} ELSE issued
            /\ written' = NoWrites
            /\ d' = d
       ELSE \E st \in GetStatuses(IdResourceGroup(d.id), IdRuleName(d.id)) :
            \E resp \in GetBodies(st, FALSE) :
              LET out == ReadOutcome(d.id, st, resp)
              IN  /\ call' = Called("read", st, resp)
                  /\ issued' = IF pc = "idle" THEN {"read"}
                                ELSE issued \cup {"read"}
                  /\ Return(out.ret)
                  /\ written' = out.writes
                  /\ d' = IF out.ret = Panic THEN d
                          ELSE [id |-> IF out.clear THEN <<>> ELSE d.id,
                                fields |-> ApplyWrites(d.fields, out.writes)]
    /\ sinceDelete' = IF sinceDelete = "deleted" THEN "read" ELSE sinceDelete
    /\ UNCHANGED <<cfg, importProtection, remote, extChanges>>

\* DeleteResult that drops every error of the call.
DeleteResultDropsErrors(name, resourceGroup, st) == Success

\* DeleteResult that treats a not-found response like any other failure.
DeleteResultNotFoundIsError(name, resourceGroup, st) ==
    IF st # "OK" THEN WrappedError("delete", name, resourceGroup) ELSE Success

\* Lines 392-398: what Delete returns for the status of client.Delete.
DeleteResult(name, resourceGroup, st) ==
    IF st # "OK" /\ ~ResponseWasNotFound(st)
    THEN WrappedError("delete", name, resourceGroup)
    ELSE Success

\* Delete, lines 380-399.
Delete ==
    /\ pc = "idle"
    /\ d.id # <<>>
    /\ op' = "delete"
    /\ written' = NoWrites
    /\ IF ~ParseOk(d.id)
       THEN /\ Return(RawError("parse"))
            /\ call' = NoCall
            /\ issued' = {}
            /\ UNCHANGED <<remote, sinceDelete>>
       ELSE LET resourceGroup == IdResourceGroup(d.id)
                name == IdRuleName(d.id)
            IN  \E st \in GetStatuses(resourceGroup, name) :
                  LET ret == DeleteResult(name, resourceGroup, st)
                  IN  /\ call' = Called("delete", st, EmptyObject)
                      /\ issued' = {"delete"}
                      /\ Return(ret)
                      /\ remote' = IF st = "OK" THEN NoRule ELSE remote
                      /\ sinceDelete' = IF ret = Success THEN "deleted"
                                        ELSE sinceDelete
    /\ UNCHANGED <<cfg, importProtection, d, extChanges>>

\* terraform import (schema.ImportStatePassthrough): the identifier is taken
\* as the user typed it, no field is known yet.
ImportIds ==
    {RemoteId(cfg.resource_group_name, cfg.name),
     <<"subscriptions", Subscription, "resourceGroups", cfg.resource_group_name,
       "providers", "Microsoft.Insights", "scheduledQueryRules", cfg.name>>,
     <<"scheduledqueryrules", cfg.name, "oops">>}

ImportState ==
    /\ pc = "idle"
    /\ op = "none"
    /\ d.id = <<>>
    /\ \E id \in ImportIds : d' = [id |-> id, fields |-> NoFields]
    /\ op' = "import"
    /\ UNCHANGED <<cfg, importProtection, remote, pc, call, issued, result,
                   written, sinceDelete, extChanges>>

\* Another actor creates or replaces the rule.
ExternalPut ==
    /\ extChanges < MaxExternal
    /\ \E o \in ExternalObjects(cfg.resource_group_name, cfg.name) :
         remote' = [key |-> <<cfg.resource_group_name, cfg.name>>, obj |-> o]
    /\ sinceDelete' = "none"
    /\ extChanges' = extChanges + 1
    /\ UNCHANGED <<cfg, importProtection, d, pc, op, call, issued, result,
                   written>>

\* Another actor deletes the rule.
ExternalDelete ==
    /\ extChanges < MaxExternal
    /\ remote # NoRule
    /\ remote' = NoRule
    /\ extChanges' = extChanges + 1
    /\ UNCHANGED <<cfg, importProtection, d, pc, op, call, issued, result,
                   written, sinceDelete>>

Next ==
    \/ CreateUpdateStart
    \/ CreateOrUpdate
    \/ GetAfterCreate
    \/ Read
    \/ Delete
    \/ ImportState
    \/ ExternalPut
    \/ ExternalDelete

Spec == Init /\ [][Next]_vars

----------------------------------------------------------------------------
(* Properties *)

\* A handler has returned and nothing was invoked since.
Returned(o) == pc = "idle" /\ op = o /\ result # Running

HasNonEmptyID(obj) == IsSome(obj.ID) /\ Val(obj.ID) # <<>>

\* C1: when the Get of Read is answered NotFound, Read clears the local
\* identifier and returns success, and it sets no field.
C1_ReadNotFoundClearsState ==
    (pc = "idle" /\ call.site = "read" /\ call.status = "NotFound")
    => /\ result = Success
       /\ d.id = <<>>
       /\ written = NoWrites

C1_Witness ==
    /\ Returned("read")
    /\ call.site = "read" /\ call.status = "NotFound"
    /\ result = Success /\ d.id = <<>>

\* C2: Delete returns success when the provider's Delete succeeds or answers
\* NotFound, and an error for every other failure of the call.
C2_DeleteOutcome ==
    (Returned("delete") /\ call.site = "delete")
    => /\ call.status \in {"OK", "NotFound"} => result = Success
       /\ call.status \notin {"OK", "NotFound"} => result.kind = "delete"

C2_Witness ==
    /\ Returned("delete")
    /\ call.site = "delete" /\ call.status = "NotFound"
    /\ result = Success

\* C3: a Create under import protection whose existence check returns an
\* object with a non-empty identifier fails with AlreadyExists, having issued
\* no CreateOrUpdate, with the local identifier unset and the remote object
\* unchanged; without import protection, or on Update, no existence check is
\* made and the handler never fails with AlreadyExists.
C3_ExistsState ==
    /\ (op = "create" /\ importProtection /\ call.site = "check"
        /\ call.status = "OK" /\ HasNonEmptyID(call.body))
       => (pc = "idle" /\ result = RawError("exists"))
    /\ result.kind = "exists"
       => /\ op = "create" /\ importProtection
          /\ issued = {"check"}
          /\ d.id = <<>>
    /\ (op \in {"create", "update"} /\ ~(importProtection /\ op = "create"))
       => ("check" \notin issued /\ result.kind # "exists")

C3_ImportProtection ==
    /\ []C3_ExistsState
    /\ [][(CreateUpdateStart /\ result'.kind = "exists")
          => (remote' = remote /\ d'.id = d.id)]_vars

C3_Witness ==
    /\ Returned("create")
    /\ result = RawError("exists")
    /\ remote # NoRule /\ HasNonEmptyID(remote.obj)
    /\ d.id = <<>>

\* C4: whenever the Create or the Update handler returns success, the local
\* identifier is non-empty and is the identifier of the remote object.
C4_CreateSuccessIsPresent ==
    [][(pc # "idle" /\ pc' = "idle" /\ op \in {"create", "update"}
        /\ result' = Success)
       => (d'.id # <<>> /\ remote' # NoRule /\ remote'.obj.ID = Some(d'.id))]_vars

C4_Race ==
    /\ Returned("create") /\ result = Success
    /\ d.id = <<>> /\ remote = NoRule

\* What the provider stores, and Get returns, for the declared configuration.
SentObject ==
    Stored(cfg.resource_group_name, cfg.name,
           ExpandParameters(PlannedFields(cfg, NoFields))).obj

\* The value of field f in the configuration Read built from the response.
FlatValue(f) ==
    IF f \in DOMAIN written /\ IsSome(written[f]) THEN Val(written[f])
    ELSE ZeroValue(f)

C5Fields ==
    {"description", "enabled", "data_source_id", "query", "query_type",
     "authorized_resources", "frequency", "time_window", "throttling",
     "severity", "tags", "criteria", "azns_action", "trigger"}

\* The fields of C5Fields that the request payload carries.
C5Carried ==
    C5Fields \ {"throttling", "severity", "azns_action", "trigger"}

\* Create or Update has returned after Read flattened the very object that
\* CreateOrUpdate stored for the configuration.
RoundTripDone ==
    /\ pc = "idle" /\ op \in {"create", "update"} /\ result = Success
    /\ call.site = "read" /\ call.status = "OK" /\ call.body = SentObject

\* C5: every user-declared field has the same value after the configuration
\* is expanded by CreateOrUpdate and the stored payload is flattened by Read.
C5_RoundTrip ==
    RoundTripDone => \A f \in C5Fields : FlatValue(f) = cfg[f]

\* The round trip does hold for the fields the payload carries.
C5_RoundTripOfCarriedFields ==
    RoundTripDone => \A f \in C5Carried : FlatValue(f) = cfg[f]

\* C6: after a successful Create, name and resource_group_name are those of
\* the configuration, and Read took both from the stored identifier.
C6_IdentityAfterCreate ==
    (Returned("create") /\ result = Success)
    => /\ DGet(d.fields, "name") = cfg.name
       /\ DGet(d.fields, "resource_group_name") = cfg.resource_group_name
       /\ call.status = "OK"
          => /\ d.id = RemoteId(cfg.resource_group_name, cfg.name)
             /\ written["name"] = Some(IdRuleName(d.id))
             /\ written["resource_group_name"] = Some(IdResourceGroup(d.id))

C6_Witness ==
    /\ Returned("create") /\ result = Success
    /\ call.site = "read" /\ call.status = "OK"
    /\ cfg.name = "r2" /\ cfg.resource_group_name = "rg1"
    /\ DGet(d.fields, "name") = "r2"
    /\ DGet(d.fields, "resource_group_name") = "rg1"

C7Fields ==
    {"location", "description", "enabled", "last_updated_time", "frequency",
     "time_window", "authorized_resources", "data_source_id", "query",
     "query_type"}

\* Field f is absent from the response resp.
AbsentIn(resp, f) ==
    IF f = "location" THEN ~IsSome(resp.Location)
    ELSE IF ~IsSome(resp.LogSearchRule) THEN TRUE
    ELSE LET rule == Val(resp.LogSearchRule)
             noSchedule == ~IsSome(rule.Schedule)
             noSource == ~IsSome(rule.Source)
         IN  CASE f = "description" -> ~IsSome(rule.Description)
               [] f = "enabled" -> rule.Enabled = ""
               [] f = "last_updated_time" -> ~IsSome(rule.LastUpdatedTime)
               [] f = "frequency" ->
                    noSchedule \/ ~IsSome(Val(rule.Schedule).FrequencyInMinutes)
               [] f = "time_window" ->
                    noSchedule \/ ~IsSome(Val(rule.Schedule).TimeWindowInMinutes)
               [] f = "authorized_resources" ->
                    noSource \/ ~IsSome(Val(rule.Source).AuthorizedResources)
               [] f = "data_source_id" ->
                    noSource \/ ~IsSome(Val(rule.Source).DataSourceID)
               [] f = "query" -> noSource \/ ~IsSome(Val(rule.Source).Query)
               [] f = "query_type" -> noSource \/ Val(rule.Source).QueryType = ""

\* Read has returned success after Get returned an object.
ReadHydrated ==
    pc = "idle" /\ call.site = "read" /\ call.status = "OK" /\ result = Success

\* C7: Read sets an optional field only when the response holds it.
C7_ReadSetsOnlyPresentFields ==
    ReadHydrated
    => \A f \in C7Fields : AbsentIn(call.body, f) => f \notin DOMAIN written

\* The fields of C7Fields that Read does guard.
C7_GuardedFields ==
    ReadHydrated
    => \A f \in C7Fields \ {"description", "enabled", "query_type"} :
          AbsentIn(call.body, f) => f \notin DOMAIN written

\* Read has returned after Get returned a log-to-metric rule, whose criteria
\* Read flattens.
ReadFlattened ==
    /\ pc = "idle" /\ call.site = "read" /\ call.status = "OK"
    /\ IsSome(call.body.LogSearchRule)
    /\ IsLogToMetric(Val(call.body.LogSearchRule))

\* C8: flattening a response never takes a nil pointer fault, whichever of
\* its fields are absent.
C8_FlattenerTotal == ReadFlattened => result # Panic

\* The faults of the flattener are those of a criterion without metric name.
C8_FaultOnlyWithoutMetricName ==
    (ReadFlattened /\ result = Panic)
    => LET criteria == Val(Val(call.body.LogSearchRule).Action).Criteria
       IN  /\ IsSome(criteria)
           /\ \E i \in DOMAIN Val(criteria) : ~IsSome(Val(criteria)[i].MetricName)

\* The name and resource group the handler that made the last call works on.
CallIdentity ==
    IF call.site \in {"read", "delete"}
    THEN <<IdRuleName(d.id), IdResourceGroup(d.id)>>
    ELSE <<DGet(d.fields, "name"), DGet(d.fields, "resource_group_name")>>

\* The NotFound responses the handlers recover from.
RecoveredNotFound ==
    call.status = "NotFound" /\ call.site \in {"check", "read", "delete"}

\* C9: a client call that fails, other than with a recovered NotFound, ends
\* the handler with an error that carries the name and the resource group.
C9_ApiErrorsWrapped ==
    (pc = "idle" /\ call.site # "none" /\ call.status # "OK"
     /\ ~RecoveredNotFound)
    => /\ result.kind \notin {"ok", "none"}
       /\ result.ctx = Some(CallIdentity)

\* Every such failure does end the handler with an error.
C9_ApiErrorsFatal ==
    (pc = "idle" /\ call.site # "none" /\ call.status # "OK"
     /\ ~RecoveredNotFound)
    => result.kind \notin {"ok", "none"}

\* C10: a Read that follows a successful Delete, with the rule not created
\* again in between and its Get answered by the provider, clears the local
\* identifier and returns success.
C10_DeleteThenRead ==
    (Returned("read") /\ sinceDelete = "read" /\ call.status \notin Failures)
    => (result = Success /\ d.id = <<>>)

C10_Witness ==
    /\ Returned("read") /\ sinceDelete = "read"
    /\ call.site = "read" /\ call.status = "NotFound"
    /\ result = Success /\ d.id = <<>>

\* Read has returned after Get returned a rule whose action is not the
\* log-to-metric one: another variant, or none.
ReadOtherAction ==
    /\ pc = "idle" /\ call.site = "read" /\ call.status = "OK"
    /\ IsSome(call.body.LogSearchRule)
    /\ ~IsLogToMetric(Val(call.body.LogSearchRule))

\* The fields Read sets after it has looked at the action.
C11Unrefreshed ==
    {"criteria", "frequency", "time_window", "authorized_resources",
     "data_source_id", "query", "query_type", "tags"}

\* Read failed with the unknown action type error, kept the identifier, set
\* the fields of early and none of those that follow the action.
UnknownActionOutcome(early) ==
    /\ result = WrappedError("unknown_action", IdRuleName(d.id),
                             IdResourceGroup(d.id))
    /\ d.id # <<>>
    /\ early \subseteq DOMAIN written
    /\ C11Unrefreshed \cap DOMAIN written = {}
    /\ \A f \in DOMAIN written : d.fields[f] = written[f]

\* Read returns success for an object only when its action is log-to-metric.
SuccessOnlyForLogToMetric ==
    (pc = "idle" /\ call.site = "read" /\ call.status = "OK" /\ result = Success)
    => /\ IsSome(call.body.LogSearchRule)
       /\ IsLogToMetric(Val(call.body.LogSearchRule))

\* C11 as stated: for a rule with another action, or none, Read fails with
\* the unknown action type error, keeps the identifier and has overwritten
\* name, resource_group_name, location, enabled and description, while
\* criteria, schedule, source and tags are not refreshed.
C11_UnknownActionAsStated ==
    /\ SuccessOnlyForLogToMetric
    /\ ReadOtherAction
       => UnknownActionOutcome({"name", "resource_group_name", "location",
                                "enabled", "description"})

\* C11 as amended: the same, with location overwritten exactly when the
\* response holds one.
C11_UnknownAction ==
    /\ SuccessOnlyForLogToMetric
    /\ ReadOtherAction
       => /\ UnknownActionOutcome({"name", "resource_group_name", "enabled",
                                   "description"})
          /\ "location" \in DOMAIN written <=> IsSome(call.body.Location)

C11_Witness ==
    /\ ReadOtherAction
    /\ IsSome(Val(call.body.LogSearchRule).Action)
    /\ Val(Val(call.body.LogSearchRule).Action).OdataType = "AlertingAction"
    /\ result.kind = "unknown_action"
    /\ d.id # <<>>
    /\ d.fields["location"] = Some("westus")
    /\ d.fields["description"] = Some("test alerting action")
    /\ d.fields["enabled"] = Some(TRUE)

\* The errors Create/Update returns before its closing Read has made a call.
C12Errors == {"check", "exists", "create", "get_after", "noid", "parse"}

\* Where the handler stands tells what has succeeded: the Get after
\* CreateOrUpdate is made only once CreateOrUpdate succeeded, the closing Read
\* is entered only with the identifier of the object that Get returned, and a
\* Create that ended before Read's Get returned an error and left the
\* identifier empty.
C12_State ==
    /\ pc = "cu_get" => (call.site = "put" /\ call.status = "OK")
    /\ pc = "cu_read"
       => /\ call.site = "get_after" /\ call.status = "OK"
          /\ "put" \in issued
          /\ IsSome(call.body.ID) /\ d.id = Val(call.body.ID)
    /\ (Returned("create") /\ call.site # "read")
       => (result.kind \in C12Errors /\ d.id = <<>>)
    /\ (Returned("create") /\ call.site = "check")
       => (call.status # "NotFound" /\ result.kind \in {"check", "exists"})
    /\ (Returned("create") /\ call.site = "put")
       => (call.status # "OK" /\ result.kind = "create")
    /\ (Returned("create") /\ call.site = "get_after" /\ call.status # "OK")
       => result = RawError("get_after")
    /\ (Returned("create") /\ call.site = "get_after" /\ call.status = "OK"
        /\ ~IsSome(call.body.ID))
       => result.kind = "noid"

\* With no other actor, a Create whose Get after a successful CreateOrUpdate
\* failed leaves the remote object in place and no local identifier.
C12_Orphan ==
    (Returned("create") /\ call.site = "get_after" /\ call.status # "OK"
     /\ extChanges = 0)
    => (remote # NoRule /\ d.id = <<>>)

\* C12: Create/Update sets the identifier only after CreateOrUpdate succeeded
\* and the Get that follows returned an object with a non-nil ID; when the
\* existence check, CreateOrUpdate or that Get fails, or the ID is nil, the
\* handler returns an error with the identifier unchanged, so that a failed
\* Get after a successful CreateOrUpdate leaves a remote object without local
\* state.
C12_IdentifierSetLast ==
    /\ [](C12_State /\ C12_Orphan)
    /\ [][((CreateUpdateStart \/ CreateOrUpdate \/ GetAfterCreate)
           /\ pc' = "idle")
          => (result'.kind \in C12Errors \ {"parse"} /\ d'.id = d.id)]_vars
    /\ [][(op' \in {"create", "update"} /\ d'.id # d.id)
          => \/ /\ pc = "cu_get" /\ "put" \in issued
                /\ call'.site = "get_after" /\ call'.status = "OK"
                /\ IsSome(call'.body.ID) /\ d'.id = Val(call'.body.ID)
             \/ pc = "cu_read" /\ d'.id = <<>>]_vars

C12_Witness ==
    /\ Returned("create")
    /\ issued = {"put", "get_after"}
    /\ call.site = "get_after" /\ call.status \in Failures
    /\ result = RawError("get_after")
    /\ remote # NoRule
    /\ d.id = <<>>

====
